---------------------------- MODULE Spec2Model ----------------------------
(***************************************************************************)
(* A model of the ADF parser (parser/rust): the line lexer, the section    *)
(* parser and the Document store.                                          *)
(*                                                                         *)
(* Text is modelled at the character level: a Rust String is a sequence of *)
(* one-character strings, a text is the sequence of its lines (what        *)
(* str::lines yields).  A Value is a pair <<tag, payload>>; a              *)
(* HashMap<String, Value> is a function from keys to Values.               *)
(***************************************************************************)
EXTENDS Integers, Sequences, FiniteSets, TLC

(***************************************************************************)
(* Strings                                                                 *)
(***************************************************************************)

\* A string literal as the sequence of its characters.
Chars(s) == [k \in 1..Len(s) |-> SubSeq(s, k, k)]

QUOTE == "\""
NL == "\n"

\* The characters char::is_whitespace accepts, within the model's alphabet.
IsSpace(c) == c = " "

Digits == {"0", "1", "2", "3", "4", "5", "6", "7", "8", "9"}
LowerLetters == "abcdefghijklmnopqrstuvwxyz"
UpperLetters == "ABCDEFGHIJKLMNOPQRSTUVWXYZ"
LowerSet == {SubSeq(LowerLetters, k, k) : k \in 1..Len(LowerLetters)}
UpperSet == {SubSeq(UpperLetters, k, k) : k \in 1..Len(UpperLetters)}

\* char::is_alphanumeric, within the model's alphabet.
IsAlnum(c) == c \in Digits \/ c \in LowerSet \/ c \in UpperSet

\* char::to_lowercase on the ASCII letters.
LowerChar(c) ==
    IF c \in UpperSet
    THEN LET k == CHOOSE j \in 1..Len(UpperLetters) : SubSeq(UpperLetters, j, j) = c
         IN  SubSeq(LowerLetters, k, k)
    ELSE c

\* str::to_lowercase
to_lowercase(s) == [k \in 1..Len(s) |-> LowerChar(s[k])]

\* str::trim_start, str::trim_end, str::trim
RECURSIVE trim_start(_)
trim_start(s) == IF s # <<>> /\ IsSpace(s[1]) THEN trim_start(Tail(s)) ELSE s

RECURSIVE trim_end(_)
trim_end(s) ==
    IF s # <<>> /\ IsSpace(s[Len(s)]) THEN trim_end(SubSeq(s, 1, Len(s) - 1)) ELSE s

trim(s) == trim_end(trim_start(s))

starts_with(s, c) == s # <<>> /\ s[1] = c
ends_with(s, c) == s # <<>> /\ s[Len(s)] = c
contains(s, c) == \E k \in 1..Len(s) : s[k] = c

\* str::find / str::rfind of a character: the 0-based index, or -1 for None.
find(s, c) == IF contains(s, c) THEN (CHOOSE k \in 1..Len(s) : s[k] = c /\ \A j \in 1..(k - 1) : s[j] # c) - 1 ELSE -1
rfind(s, c) == IF contains(s, c) THEN (CHOOSE k \in 1..Len(s) : s[k] = c /\ \A j \in (k + 1)..Len(s) : s[j] # c) - 1 ELSE -1

\* The Rust slice s[from..to] with 0-based, end-exclusive byte offsets.
Slice(s, from, to) == SubSeq(s, from + 1, to)

\* str::split(c): never empty; "" splits to [""], "a." to ["a", ""].
RECURSIVE split_loop(_, _, _, _, _)
split_loop(s, c, k, parts, current) ==
    IF k > Len(s) THEN Append(parts, current)
    ELSE IF s[k] = c THEN split_loop(s, c, k + 1, Append(parts, current), <<>>)
    ELSE split_loop(s, c, k + 1, parts, Append(current, s[k]))

split(s, c) == split_loop(s, c, 1, <<>>, <<>>)

\* [String]::join(sep)
RECURSIVE join(_, _)
join(parts, sep) ==
    IF parts = <<>> THEN <<>>
    ELSE IF Len(parts) = 1 THEN parts[1]
    ELSE parts[1] \o <<sep>> \o join(Tail(parts), sep)

(***************************************************************************)
(* Option and Result                                                       *)
(***************************************************************************)
None == <<>>
Some(x) == <<x>>
IsSome(o) == o # <<>>
Unwrap(o) == o[1]

Ok == <<"Ok">>
Err(e) == <<"Err", e>>
Panic == <<"Panic">>
IsOk(r) == r[1] = "Ok"
IsErr(r) == r[1] = "Err"
IsPanic(r) == r[1] = "Panic"

\* AdfError::validation_error(path, "Cannot set nested value: '<part>' is not an object")
validation_error(path, part) == <<"ValidationError", path, part>>
\* AdfError::parse_error(line, "Cannot set nested value: '<part>' is not an object")
parse_error(line, part) == <<"ParseError", line, part>>

(***************************************************************************)
(* Value                                                                   *)
(***************************************************************************)
VString(s) == <<"String", s>>
VInteger(n) == <<"Integer", n>>
VFloat(f) == <<"Float", f>>
VBoolean(b) == <<"Boolean", b>>
VNull == <<"Null", <<>>>>
VArray(a) == <<"Array", a>>
VObject(m) == <<"Object", m>>
Tag(v) == v[1]
Val(v) == v[2]
is_object(v) == Tag(v) = "Object"

\* HashMap::new, HashMap::insert, HashMap::contains_key
EmptyMap == <<>>
MapInsert(m, k, v) == [x \in (DOMAIN m) \cup {k} |-> IF x = k THEN v ELSE m[x]]
HasKey(m, k) == k \in DOMAIN m

(***************************************************************************)
(* Document                                                                *)
(***************************************************************************)

\* Document::unquote_key
unquote_key(key) ==
    IF starts_with(key, QUOTE) /\ ends_with(key, QUOTE) /\ Len(key) >= 2
    THEN SubSeq(key, 2, Len(key) - 1)
    ELSE key

\* Document::parse_path: the loop over path.chars() with (parts, current, in_quotes).
RECURSIVE parse_path_loop(_, _, _, _, _)
parse_path_loop(path, k, parts, current, in_quotes) ==
    IF k > Len(path)
    THEN IF current # <<>> THEN Append(parts, unquote_key(current)) ELSE parts
    ELSE IF path[k] = QUOTE
    THEN parse_path_loop(path, k + 1, parts, Append(current, path[k]), ~in_quotes)
    ELSE IF path[k] = "." /\ ~in_quotes
    THEN IF current # <<>>
         THEN parse_path_loop(path, k + 1, Append(parts, unquote_key(current)), <<>>, in_quotes)
         ELSE parse_path_loop(path, k + 1, parts, current, in_quotes)
    ELSE parse_path_loop(path, k + 1, parts, Append(current, path[k]), in_quotes)

parse_path(path) == parse_path_loop(path, 1, <<>>, <<>>, FALSE)

\* Document::get, the walk over the parts: None when a segment is missing or an
\* intermediate value is not an Object.
RECURSIVE get_walk(_, _, _)
get_walk(current, parts, k) ==
    IF k > Len(parts) THEN Some(current)
    ELSE IF is_object(current) /\ HasKey(Val(current), parts[k])
    THEN get_walk(Val(current)[parts[k]], parts, k + 1)
    ELSE None

\* Document::get on a root map.
get(r, path) ==
    IF path = <<>> THEN Some(VObject(r))
    ELSE get_walk(VObject(r), parse_path(path), 1)

\* entry(part).or_insert_with(|| Value::Object(HashMap::new())): the map with the
\* part present.
or_insert_object(current, part) ==
    IF HasKey(current, part) THEN current ELSE MapInsert(current, part, VObject(EmptyMap))

\* The map `entered` once the walk below its entry `part` has ended with `below`.
walk_back(entered, part, below) ==
    [res |-> below.res, map |-> MapInsert(entered, part, VObject(below.map))]

\* Document::set, the loop over the parts on the map `current`: the last part is
\* inserted; an intermediate part is entered, created as an empty Object when
\* absent, and the walk fails when it holds a non-Object.  The map returned holds
\* every insertion made before the outcome, as the code mutates in place.
RECURSIVE set_walk(_, _, _, _, _)
\* A variant of set_entered that replaces a non-Object intermediate by an empty
\* Object and walks on, instead of failing.
set_entered_replacing(entered, parts, k, value, path) ==
    IF ~is_object(entered[parts[k]])
    THEN walk_back(entered, parts[k], set_walk(EmptyMap, parts, k + 1, value, path))
    ELSE walk_back(entered, parts[k],
                   set_walk(Val(entered[parts[k]]), parts, k + 1, value, path))

set_entered(entered, parts, k, value, path) ==
    IF ~is_object(entered[parts[k]])
    THEN [res |-> Err(validation_error(path, parts[k])), map |-> entered]
    ELSE walk_back(entered, parts[k],
                   set_walk(Val(entered[parts[k]]), parts, k + 1, value, path))

set_walk(current, parts, k, value, path) ==
    IF k = Len(parts)
    THEN [res |-> Ok, map |-> MapInsert(current, parts[k], value)]
    ELSE set_entered(or_insert_object(current, parts[k]), parts, k, value, path)

\* Document::set past the empty path, on the parts of the path.
set_parts(r, parts, value, path) ==
    IF parts = <<>> THEN [res |-> Ok, map |-> r]
    ELSE set_walk(r, parts, 1, value, path)

\* Document::set: the outcome and the root afterwards.
set(r, path, value) ==
    IF path = <<>>
    THEN [res |-> Ok, map |-> IF is_object(value) THEN Val(value) ELSE r]
    ELSE set_parts(r, parse_path(path), value, path)

\* A variant of deep_merge_objects that appends an overlay array to a base
\* array instead of replacing it.
RECURSIVE deep_merge_appending(_, _)
deep_merge_appending(base, overlay) ==
    [key \in (DOMAIN base) \cup (DOMAIN overlay) |->
        IF ~HasKey(overlay, key) THEN base[key]
        ELSE IF HasKey(base, key) /\ is_object(base[key]) /\ is_object(overlay[key])
        THEN VObject(deep_merge_appending(Val(base[key]), Val(overlay[key])))
        ELSE IF HasKey(base, key) /\ Tag(base[key]) = "Array" /\ Tag(overlay[key]) = "Array"
        THEN VArray(Val(base[key]) \o Val(overlay[key]))
        ELSE overlay[key]]

\* Document::deep_merge_objects.  The loop handles each overlay key on its own
\* (it reads and writes result[key] only), so the order of iteration is immaterial.
RECURSIVE deep_merge_objects(_, _)
deep_merge_objects(base, overlay) ==
    [key \in (DOMAIN base) \cup (DOMAIN overlay) |->
        IF ~HasKey(overlay, key) THEN base[key]
        ELSE IF HasKey(base, key) /\ is_object(base[key]) /\ is_object(overlay[key])
        THEN VObject(deep_merge_objects(Val(base[key]), Val(overlay[key])))
        ELSE overlay[key]]

\* Document::merge: the root afterwards.
merge(r, other_root) == deep_merge_objects(r, other_root)

\* A variant of merge_existing with the arguments of the deep merge swapped: the
\* existing fields win over the new ones.
merge_existing_swapped(r, path, value, existing) ==
    IF IsSome(existing) /\ is_object(Unwrap(existing)) /\ is_object(value)
    THEN set(r, path, VObject(deep_merge_objects(Val(value), Val(Unwrap(existing)))))
    ELSE set(r, path, value)

\* Document::merge_at_path, given what get(path) returned.
merge_existing(r, path, value, existing) ==
    IF IsSome(existing) /\ is_object(Unwrap(existing)) /\ is_object(value)
    THEN set(r, path, VObject(deep_merge_objects(Val(Unwrap(existing)), Val(value))))
    ELSE set(r, path, value)

\* Document::merge_at_path: the outcome and the root afterwards.
merge_at_path(r, path, value) == merge_existing(r, path, value, get(r, path))

\* Document::add_relative_section, the loop over the parts: as set's, but a
\* non-Object intermediate panics (expect("Should be object")).
RECURSIVE add_relative_walk(_, _, _, _)
add_relative_entered(entered, parts, k, value) ==
    IF ~is_object(entered[parts[k]])
    THEN [res |-> Panic, map |-> entered]
    ELSE walk_back(entered, parts[k],
                   add_relative_walk(Val(entered[parts[k]]), parts, k + 1, value))

add_relative_walk(current, parts, k, value) ==
    IF k = Len(parts)
    THEN [res |-> Ok, map |-> MapInsert(current, parts[k], value)]
    ELSE add_relative_entered(or_insert_object(current, parts[k]), parts, k, value)

\* Document::add_relative_section on the parts of the path.
add_relative_parts(rel, parts, value) ==
    IF parts = <<>> THEN [res |-> Ok, map |-> rel]
    ELSE add_relative_walk(rel, parts, 1, value)

\* Document::add_relative_section: the outcome and relative_sections afterwards.
add_relative_section(rel, path, value) ==
    add_relative_parts(rel, parse_path(path), value)

(***************************************************************************)
(* Lexer                                                                   *)
(***************************************************************************)

\* Token::new: every kind-specific field None.
Token_new(token_type, line_number, raw_line) ==
    [token_type |-> token_type, line_number |-> line_number, raw_line |-> raw_line,
     path |-> None, is_absolute |-> None, key |-> None, value |-> None,
     constraint |-> None, quote_count |-> None]

\* Lexer::is_valid_path, one part: quoted, or alphanumerics and "_" only.
is_valid_part(part) ==
    \/ starts_with(part, QUOTE) /\ ends_with(part, QUOTE)
    \/ \A j \in 1..Len(part) : IsAlnum(part[j]) \/ part[j] = "_"

all_valid_parts(parts) == \A k \in 1..Len(parts) : is_valid_part(parts[k])

\* Lexer::is_valid_path
is_valid_path(path) ==
    IF path = <<>> THEN TRUE ELSE all_valid_parts(split(path, "."))

\* Lexer::try_parse_header, from the path part on.
header_with_path(path_part, is_absolute, line, line_number) ==
    IF path_part = <<>> /\ is_absolute
    THEN Some([Token_new("AbsoluteHeader", line_number, line)
               EXCEPT !.path = Some(<<>>), !.is_absolute = Some(TRUE)])
    ELSE IF path_part = <<>> THEN None
    ELSE IF ~is_valid_path(path_part) THEN None
    ELSE Some([Token_new(IF is_absolute THEN "AbsoluteHeader" ELSE "RelativeHeader",
                         line_number, line)
               EXCEPT !.path = Some(path_part), !.is_absolute = Some(is_absolute)])

\* Lexer::try_parse_header, from the text before the colon on.
header_before_colon(before, line, line_number) ==
    header_with_path(IF starts_with(before, "#") THEN trim(Tail(before)) ELSE before,
                     starts_with(before, "#"), line, line_number)

header_stripped(stripped, line, line_number) ==
    IF ~ends_with(stripped, ":") THEN None
    ELSE header_before_colon(trim(SubSeq(stripped, 1, Len(stripped) - 1)), line, line_number)

\* Lexer::try_parse_header: Some(header token) or None.
try_parse_header(line, line_number) == header_stripped(trim(line), line, line_number)

\* Lexer::count_leading_quotes
RECURSIVE count_leading_quotes(_)
count_leading_quotes(s) ==
    IF s # <<>> /\ s[1] = QUOTE THEN 1 + count_leading_quotes(Tail(s)) ELSE 0

\* Lexer::ends_with_quotes: the last `count` characters are all quotes.
ends_with_quotes(s, count) ==
    IF Len(s) < count THEN FALSE
    ELSE \A k \in (Len(s) - count + 1)..Len(s) : s[k] = QUOTE

\* A variant of extract_quoted_value that leaves the quotes on the value.
extract_quoted_value_verbatim(s, quote_count) == IF Len(s) < quote_count * 2 THEN <<>> ELSE s

\* Lexer::extract_quoted_value
extract_quoted_value(s, quote_count) ==
    IF Len(s) < quote_count * 2 THEN <<>>
    ELSE Slice(s, quote_count, Len(s) - quote_count)

\* Lexer::parse_constraint on the trimmed text.
constraint_between(constraint) ==
    IF constraint = <<>> THEN None ELSE Some(constraint)

constraint_in(trimmed) ==
    IF trimmed = <<>> THEN None
    ELSE IF rfind(trimmed, "(") < 0 \/ rfind(trimmed, ")") < 0 THEN None
    ELSE IF rfind(trimmed, ")") < rfind(trimmed, "(") THEN None
    ELSE constraint_between(trim(Slice(trimmed, rfind(trimmed, "(") + 1, rfind(trimmed, ")"))))

\* Lexer::parse_constraint: Some(text between the last "(" and the last ")") or None.
parse_constraint(s) == constraint_in(trim(s))

\* Lexer::extract_constraint_after_quotes: parse_constraint of the last
\* quote_count characters of s.
extract_constraint_after_quotes(s, quote_count) ==
    IF Len(s) <= quote_count * 2 THEN None
    ELSE parse_constraint(Slice(s, Len(s) - quote_count, Len(s)))

\* Lexer::extract_constraint_after_line
extract_constraint_after_line(line, quote_count) ==
    IF Len(line) < quote_count THEN None
    ELSE parse_constraint(Slice(line, Len(line) - quote_count, Len(line)))

\* Lexer::parse_value_and_constraint: <<value, constraint>>.
value_and_constraint(s, constraint) ==
    IF IsSome(constraint) /\ rfind(s, "(") >= 0
    THEN <<trim_end(Slice(s, 0, rfind(s, "("))), constraint>>
    ELSE <<trim(s), None>>

parse_value_and_constraint(s) == value_and_constraint(s, parse_constraint(s))

\* The lexer's fields beside a token.
Lexed(token, lex_in_multiline, lex_quote_count) ==
    [token |-> token, in_multiline |-> lex_in_multiline,
     multiline_quote_count |-> lex_quote_count]

\* Lexer::parse_key_value, the simple value.
simple_key_value(line, line_number, raw_key, vc, lex_in_multiline, lex_quote_count) ==
    Lexed([Token_new("KeyValue", line_number, line)
           EXCEPT !.key = Some(raw_key), !.value = Some(vc[1]), !.constraint = vc[2]],
          lex_in_multiline, lex_quote_count)

\* Lexer::parse_key_value, from the count of leading quotes on.
key_value_quoted(line, line_number, raw_key, raw_value, quote_count, lex_in_multiline, lex_quote_count) ==
    IF quote_count > 0
    THEN IF Len(raw_value) > quote_count * 2 /\ ends_with_quotes(raw_value, quote_count)
         THEN Lexed([Token_new("KeyValue", line_number, line)
                     EXCEPT !.key = Some(raw_key),
                            !.value = Some(extract_quoted_value(raw_value, quote_count)),
                            !.constraint = extract_constraint_after_quotes(raw_value, quote_count)],
                    FALSE, quote_count)
         ELSE Lexed([Token_new("MultilineStart", line_number, line)
                     EXCEPT !.key = Some(raw_key),
                            !.value = Some(IF Len(raw_value) > quote_count
                                           THEN Slice(raw_value, quote_count, Len(raw_value))
                                           ELSE <<>>),
                            !.quote_count = Some(quote_count)],
                    TRUE, quote_count)
    ELSE simple_key_value(line, line_number, raw_key, parse_value_and_constraint(raw_value),
                          lex_in_multiline, lex_quote_count)

\* Lexer::parse_key_value, from the raw key and the raw value on.
key_value_split(line, line_number, raw_key, raw_value, lex_in_multiline, lex_quote_count) ==
    key_value_quoted(line, line_number, raw_key, raw_value, count_leading_quotes(raw_value),
                     lex_in_multiline, lex_quote_count)

\* Lexer::parse_key_value: the token and the lexer's fields afterwards.
parse_key_value(line, line_number, lex_in_multiline, lex_quote_count) ==
    key_value_split(line, line_number,
                    trim(Slice(line, 0, find(line, "="))),
                    trim_start(Slice(line, find(line, "=") + 1, Len(line))),
                    lex_in_multiline, lex_quote_count)

\* Lexer::handle_multiline_continuation: the token and the lexer's fields afterwards.
handle_multiline_continuation(line, line_number, lex_quote_count) ==
    IF ends_with_quotes(line, lex_quote_count)
    THEN Lexed([Token_new("MultilineEnd", line_number, line)
                EXCEPT !.value = Some(IF Len(line) >= lex_quote_count
                                      THEN trim_end(Slice(line, 0, Len(line) - lex_quote_count))
                                      ELSE <<>>),
                       !.constraint = extract_constraint_after_line(line, lex_quote_count)],
               FALSE, lex_quote_count)
    ELSE Lexed([Token_new("MultilineContent", line_number, line) EXCEPT !.value = Some(line)],
               TRUE, lex_quote_count)

\* Lexer::tokenize_line, from the header attempt on.
tokenize_after_header(line, line_number, header, lex_in_multiline, lex_quote_count) ==
    IF IsSome(header) THEN Lexed(Unwrap(header), lex_in_multiline, lex_quote_count)
    ELSE IF contains(line, "=")
    THEN parse_key_value(line, line_number, lex_in_multiline, lex_quote_count)
    ELSE Lexed([Token_new("ScalarValue", line_number, line) EXCEPT !.value = Some(trim(line))],
               lex_in_multiline, lex_quote_count)

\* A variant of tokenize_line that tests for a blank line before it tests for
\* an open block.
tokenize_line_blank_first(line, line_number, lex_in_multiline, lex_quote_count) ==
    IF trim(line) = <<>>
    THEN Lexed(Token_new("BlankLine", line_number, line), lex_in_multiline, lex_quote_count)
    ELSE IF lex_in_multiline
    THEN handle_multiline_continuation(line, line_number, lex_quote_count)
    ELSE tokenize_after_header(line, line_number, try_parse_header(line, line_number),
                               lex_in_multiline, lex_quote_count)

\* Lexer::tokenize_line: the token of one line and the lexer's fields afterwards.
tokenize_line(line, line_number, lex_in_multiline, lex_quote_count) ==
    IF lex_in_multiline
    THEN handle_multiline_continuation(line, line_number, lex_quote_count)
    ELSE IF trim(line) = <<>>
    THEN Lexed(Token_new("BlankLine", line_number, line), lex_in_multiline, lex_quote_count)
    ELSE tokenize_after_header(line, line_number, try_parse_header(line, line_number),
                               lex_in_multiline, lex_quote_count)

(***************************************************************************)
(* Numbers.  An i64 is held as its canonical decimal numeral (no "+", no   *)
(* leading zeros, "-0" is "0"), so that the whole 64-bit range is          *)
(* represented.  An f64 is held as <<negative, digits, exponent>>, the     *)
(* decimal value digits * 10^exponent with neither leading nor trailing    *)
(* zeros in digits; this is exact for the literals of at most 15           *)
(* significant digits and of moderate exponent.                            *)
(***************************************************************************)
AllDigits(s) == s # <<>> /\ \A k \in 1..Len(s) : s[k] \in Digits
OnlyDigits(s) == \A k \in 1..Len(s) : s[k] \in Digits

DigitChars == "0123456789"
DigitVal(c) == (CHOOSE k \in 1..Len(DigitChars) : SubSeq(DigitChars, k, k) = c) - 1

\* Leading zeros dropped, one digit kept.
RECURSIVE strip_leading_zeros(_)
strip_leading_zeros(d) ==
    IF Len(d) > 1 /\ d[1] = "0" THEN strip_leading_zeros(Tail(d)) ELSE d

\* a <= b for digit strings of the same length.
RECURSIVE DigitsLE(_, _)
DigitsLE(a, b) ==
    IF a = <<>> THEN TRUE
    ELSE IF a[1] = b[1] THEN DigitsLE(Tail(a), Tail(b))
    ELSE DigitVal(a[1]) < DigitVal(b[1])

\* a <= b for numerals without leading zeros.
MagLE(a, b) == Len(a) < Len(b) \/ (Len(a) = Len(b) /\ DigitsLE(a, b))

I64_MAX == Chars("9223372036854775807")
I64_MIN_MAGNITUDE == Chars("9223372036854775808")

\* The i64 of a sign and a magnitude, None out of range.
i64_in_range(neg, mag) ==
    IF neg
    THEN IF MagLE(mag, I64_MIN_MAGNITUDE)
         THEN Some(IF mag = <<"0">> THEN mag ELSE <<"-">> \o mag)
         ELSE None
    ELSE IF MagLE(mag, I64_MAX) THEN Some(mag) ELSE None

i64_signed(neg, body) ==
    IF ~AllDigits(body) THEN None ELSE i64_in_range(neg, strip_leading_zeros(body))

Unsigned(s) == IF starts_with(s, "-") \/ starts_with(s, "+") THEN Tail(s) ELSE s

\* str::parse::<i64>: an optional sign, then digits only, within the i64 range.
parse_i64(s) == i64_signed(starts_with(s, "-"), Unsigned(s))

\* The value of a short digit string; a longer one is out of every f64 exponent's range.
RECURSIVE DigitsToNat(_)
DigitsToNat(d) ==
    IF d = <<>> THEN 0 ELSE DigitsToNat(SubSeq(d, 1, Len(d) - 1)) * 10 + DigitVal(d[Len(d)])

ExponentDigits(d) == IF Len(d) > 4 THEN 10000 ELSE DigitsToNat(d)
ExponentValue(d) == ExponentDigits(strip_leading_zeros(d))

RECURSIVE strip_all_leading_zeros(_)
strip_all_leading_zeros(d) ==
    IF d # <<>> /\ d[1] = "0" THEN strip_all_leading_zeros(Tail(d)) ELSE d

RECURSIVE strip_trailing_zeros(_)
strip_trailing_zeros(d) ==
    IF d # <<>> /\ d[Len(d)] = "0" THEN strip_trailing_zeros(SubSeq(d, 1, Len(d) - 1)) ELSE d

\* The f64 of sign, digits and decimal exponent; -0.0 equals 0.0.
CanonicalDigits(neg, d, exponent) ==
    IF d = <<>> THEN <<FALSE, <<"0">>, 0>>
    ELSE <<neg, strip_trailing_zeros(d), exponent + (Len(d) - Len(strip_trailing_zeros(d)))>>

CanonicalFloat(neg, digits, exponent) ==
    CanonicalDigits(neg, strip_all_leading_zeros(digits), exponent)

\* str::parse::<f64>, Number ::= (Digit+ | Digit+ "." Digit* | Digit* "." Digit+) Exp?,
\* Exp ::= ("e" | "E") Sign? Digit+, from its parts on.
f64_number(neg, intpart, fracpart, has_exp, expo) ==
    IF intpart = <<>> /\ fracpart = <<>> THEN None
    ELSE IF ~OnlyDigits(intpart) \/ ~OnlyDigits(fracpart) THEN None
    ELSE IF has_exp /\ ~AllDigits(Unsigned(expo)) THEN None
    ELSE Some(CanonicalFloat(neg, intpart \o fracpart,
                             (IF ~has_exp THEN 0
                              ELSE IF starts_with(expo, "-") THEN 0 - ExponentValue(Unsigned(expo))
                              ELSE ExponentValue(Unsigned(expo))) - Len(fracpart)))

f64_mantissa(neg, mant, has_exp, expo) ==
    IF find(mant, ".") < 0 THEN f64_number(neg, mant, <<>>, has_exp, expo)
    ELSE f64_number(neg, Slice(mant, 0, find(mant, ".")),
                    Slice(mant, find(mant, ".") + 1, Len(mant)), has_exp, expo)

\* str::parse::<f64>, Sign? ("inf" | "infinity" | "nan" | Number), past the sign.
f64_unsigned(neg, body, low) ==
    IF low = Chars("inf") \/ low = Chars("infinity") THEN Some(<<neg, Chars("inf"), 0>>)
    ELSE IF low = Chars("nan") THEN Some(<<FALSE, Chars("nan"), 0>>)
    ELSE IF find(low, "e") < 0 THEN f64_mantissa(neg, body, FALSE, <<>>)
    ELSE f64_mantissa(neg, Slice(body, 0, find(low, "e")), TRUE,
                      Slice(body, find(low, "e") + 1, Len(body)))

\* str::parse::<f64>
parse_f64(s) == f64_unsigned(starts_with(s, "-"), Unsigned(s), to_lowercase(Unsigned(s)))

(***************************************************************************)
(* Parser                                                                  *)
(***************************************************************************)

\* Parser::infer_type, the float attempt and the fallback.
infer_float(value, f) == IF IsSome(f) THEN VFloat(Unwrap(f)) ELSE VString(value)

\* Parser::infer_type, the integer attempt.
infer_integer(value, n) ==
    IF IsSome(n) THEN VInteger(Unwrap(n)) ELSE infer_float(value, parse_f64(value))

\* A variant of infer_type that tries the float before the integer.
infer_type_float_first(value, infer) ==
    IF ~infer THEN VString(value)
    ELSE IF to_lowercase(value) = Chars("true") THEN VBoolean(TRUE)
    ELSE IF to_lowercase(value) = Chars("false") THEN VBoolean(FALSE)
    ELSE IF IsSome(parse_f64(value)) THEN VFloat(Unwrap(parse_f64(value)))
    ELSE infer_integer(value, parse_i64(value))

\* Parser::infer_type
infer_type(value, infer) ==
    IF ~infer THEN VString(value)
    ELSE IF to_lowercase(value) = Chars("true") THEN VBoolean(TRUE)
    ELSE IF to_lowercase(value) = Chars("false") THEN VBoolean(FALSE)
    ELSE infer_integer(value, parse_i64(value))

\* Parser::set_nested_value, the loop over key.split('.') on the map `current`.
RECURSIVE set_nested_walk(_, _, _, _)
set_nested_entered(entered, parts, k, value) ==
    IF ~is_object(entered[parts[k]])
    THEN [res |-> Err(parse_error(0, parts[k])), map |-> entered]
    ELSE walk_back(entered, parts[k],
                   set_nested_walk(Val(entered[parts[k]]), parts, k + 1, value))

set_nested_walk(current, parts, k, value) ==
    IF k = Len(parts)
    THEN [res |-> Ok, map |-> MapInsert(current, parts[k], value)]
    ELSE set_nested_entered(or_insert_object(current, parts[k]), parts, k, value)

\* Parser::set_nested_value: the outcome and the object afterwards.
set_nested_value(obj, key, value) ==
    IF contains(key, ".")
    THEN set_nested_walk(obj, split(key, "."), 1, value)
    ELSE [res |-> Ok, map |-> MapInsert(obj, key, value)]

\* The parts with a token's value pushed: always, or only when it is not empty.
push_value(parts, token) ==
    IF IsSome(token.value) THEN Append(parts, Unwrap(token.value)) ELSE parts

push_nonempty(parts, token) ==
    IF IsSome(token.value) /\ Unwrap(token.value) # <<>>
    THEN Append(parts, Unwrap(token.value)) ELSE parts

\* Parser::collect_multiline, the loop from index i (0-based) with the parts so far:
\* the joined text and the index the loop stopped at.
RECURSIVE collect_multiline_loop(_, _, _)
collect_multiline_loop(toks, i, parts) ==
    IF i >= Len(toks) THEN [value |-> join(parts, NL), i |-> i]
    ELSE IF toks[i + 1].token_type = "MultilineContent"
    THEN collect_multiline_loop(toks, i + 1, push_value(parts, toks[i + 1]))
    ELSE IF toks[i + 1].token_type = "MultilineEnd"
    THEN [value |-> join(push_nonempty(parts, toks[i + 1]), NL), i |-> i]
    ELSE collect_multiline_loop(toks, i + 1, parts)

\* Parser::collect_multiline
collect_multiline(toks, start_idx) ==
    collect_multiline_loop(toks, start_idx + 1, push_nonempty(<<>>, toks[start_idx + 1]))

\* Parser::parse_object, the loop from index i (0-based) with the object so far.
RECURSIVE parse_object_loop(_, _, _, _)

\* The loop goes on from next_i when set_nested_value succeeded, and returns its error.
parse_object_next(toks, next_i, r, infer) ==
    IF IsOk(r.res) THEN parse_object_loop(toks, next_i, r.map, infer) ELSE r

\* The MultilineStart arm, given what collect_multiline returned.
parse_object_multiline(toks, token, obj, c, infer) ==
    parse_object_next(toks, c.i + 1,
                      IF IsSome(token.key)
                      THEN set_nested_value(obj, Unwrap(token.key), VString(c.value))
                      ELSE [res |-> Ok, map |-> obj],
                      infer)

parse_object_loop(toks, i, obj, infer) ==
    IF i >= Len(toks) THEN [res |-> Ok, map |-> obj]
    ELSE IF toks[i + 1].token_type = "KeyValue"
    THEN IF IsSome(toks[i + 1].key) /\ IsSome(toks[i + 1].value)
         THEN parse_object_next(toks, i + 1,
                                set_nested_value(obj, Unwrap(toks[i + 1].key),
                                                 infer_type(Unwrap(toks[i + 1].value), infer)),
                                infer)
         ELSE parse_object_loop(toks, i + 1, obj, infer)
    ELSE IF toks[i + 1].token_type = "MultilineStart"
    THEN parse_object_multiline(toks, toks[i + 1], obj, collect_multiline(toks, i), infer)
    ELSE parse_object_loop(toks, i + 1, obj, infer)

\* Parser::parse_object: the outcome and the object built.
parse_object(toks, infer) == parse_object_loop(toks, 0, EmptyMap, infer)

\* A variant of push_nonempty_object that pushes the object even when it is empty.
push_any_object(objects, current_object) == Append(objects, VObject(current_object))

\* Parser::parse_object_array, `if !current_object.is_empty() { objects.push(...) }`
\* (on a blank line the object is then started anew; an empty one stays empty).
push_nonempty_object(objects, current_object) ==
    IF current_object # EmptyMap THEN Append(objects, VObject(current_object)) ELSE objects

\* Parser::parse_object_array, the loop from index i (0-based).
RECURSIVE parse_object_array_loop(_, _, _, _, _)

\* The MultilineStart arm, given what collect_multiline returned.
parse_object_array_multiline(toks, token, objects, current_object, c, infer) ==
    parse_object_array_loop(toks, c.i + 1, objects,
                            IF IsSome(token.key)
                            THEN MapInsert(current_object, Unwrap(token.key), VString(c.value))
                            ELSE current_object,
                            infer)

parse_object_array_loop(toks, i, objects, current_object, infer) ==
    IF i >= Len(toks)
    THEN push_nonempty_object(objects, current_object)
    ELSE IF toks[i + 1].token_type = "BlankLine"
    THEN parse_object_array_loop(toks, i + 1, push_nonempty_object(objects, current_object),
                                 EmptyMap, infer)
    ELSE IF toks[i + 1].token_type = "KeyValue"
    THEN parse_object_array_loop(toks, i + 1, objects,
             IF IsSome(toks[i + 1].key) /\ IsSome(toks[i + 1].value)
             THEN MapInsert(current_object, Unwrap(toks[i + 1].key),
                            infer_type(Unwrap(toks[i + 1].value), infer))
             ELSE current_object, infer)
    ELSE IF toks[i + 1].token_type = "MultilineStart"
    THEN parse_object_array_multiline(toks, toks[i + 1], objects, current_object,
                                      collect_multiline(toks, i), infer)
    ELSE parse_object_array_loop(toks, i + 1, objects, current_object, infer)

\* Parser::parse_object_array: the objects built.
parse_object_array(toks, infer) == parse_object_array_loop(toks, 0, <<>>, EmptyMap, infer)

IsKeyValueKind(token) == token.token_type \in {"KeyValue", "MultilineStart"}

\* Parser::has_blank_line_separators, the loop from token k with its three flags.
RECURSIVE has_blank_line_separators_loop(_, _, _, _, _)
has_blank_line_separators_loop(toks, k, has_blank, has_content_after_blank, found_content) ==
    IF k > Len(toks) THEN has_blank /\ has_content_after_blank
    ELSE IF toks[k].token_type = "BlankLine"
    THEN IF found_content
         THEN has_blank_line_separators_loop(toks, k + 1, TRUE, has_content_after_blank, FALSE)
         ELSE has_blank_line_separators_loop(toks, k + 1, has_blank, has_content_after_blank,
                                             found_content)
    ELSE IF IsKeyValueKind(toks[k])
    THEN has_blank_line_separators_loop(toks, k + 1, has_blank,
                                        has_content_after_blank \/ has_blank, TRUE)
    ELSE has_blank_line_separators_loop(toks, k + 1, has_blank, has_content_after_blank,
                                        found_content)

\* A variant of has_blank_line_separators whose found_content starts true, so
\* that a leading blank line counts as a separator.
has_blank_line_separators_leading(toks) ==
    has_blank_line_separators_loop(toks, 1, FALSE, FALSE, TRUE)

\* Parser::has_blank_line_separators
has_blank_line_separators(toks) ==
    has_blank_line_separators_loop(toks, 1, FALSE, FALSE, FALSE)

NotBlank(token) == token.token_type # "BlankLine"
HasValue(token) == IsSome(token.value)

\* Parser::process_section, its classification: the branch it takes on a
\* section's tokens, given the tokens that are not blank lines.
shape_of(toks, content_tokens) ==
    IF toks = <<>> \/ content_tokens = <<>> THEN "empty"
    ELSE IF ~(\E k \in 1..Len(content_tokens) : IsKeyValueKind(content_tokens[k]))
    THEN "scalar_array"
    ELSE IF has_blank_line_separators(toks) THEN "object_array"
    ELSE "plain_object"

section_shape(toks) == shape_of(toks, SelectSeq(toks, NotBlank))

\* Parser::process_section, the scalar-array branch: the inferred values of the
\* value-bearing content tokens.
inferred_values(valued, infer) ==
    [k \in 1..Len(valued) |-> infer_type(Unwrap(valued[k].value), infer)]

scalar_values(toks, infer) ==
    inferred_values(SelectSeq(SelectSeq(toks, NotBlank), HasValue), infer)

\* Parser::process_section, the loop over the plain object's entries, taken in
\* the order `order` (HashMap iteration order is unspecified): merge_at_path on
\* each, stopping at the first error.
RECURSIVE merge_entries(_, _, _, _, _)
merge_entries_next(m, obj, order, k, section_path) ==
    IF IsOk(m.res) THEN merge_entries(m.map, obj, order, k, section_path) ELSE m

merge_entries(r, obj, order, k, section_path) ==
    IF k > Len(order) THEN [res |-> Ok, map |-> r]
    ELSE merge_entries_next(
             merge_at_path(r, IF section_path = <<>> THEN order[k]
                              ELSE section_path \o <<".">> \o order[k],
                           obj[order[k]]),
             obj, order, k + 1, section_path)

\* The orders in which a HashMap with the keys of m can be iterated.
IterationOrders(m) ==
    {o \in [1..Cardinality(DOMAIN m) -> DOMAIN m] :
        \A a, b \in 1..Cardinality(DOMAIN m) : a # b => o[a] # o[b]}

\* The iteration orders process_section can meet on a section: those of the
\* plain object of an absolute section, the only map it iterates.
orders_of(o) == IF IsOk(o.res) THEN IterationOrders(o.map) ELSE {<<>>}

section_orders(toks, is_absolute, infer) ==
    IF is_absolute /\ section_shape(toks) = "plain_object"
    THEN orders_of(parse_object(toks, infer))
    ELSE {<<>>}

\* What process_section leaves: the outcome, the two maps of the document and
\* the value built from the section (None when none was).
stored(built, is_absolute, w, r, rel) ==
    IF is_absolute
    THEN [res |-> w.res, root |-> w.map, rel |-> rel, built |-> Some(built)]
    ELSE [res |-> w.res, root |-> r, rel |-> w.map, built |-> Some(built)]

\* Parser::process_section, an array branch: set for an absolute section,
\* add_relative_section for a relative one.
store_array(built, section_path, is_absolute, r, rel) ==
    stored(built, is_absolute,
           IF is_absolute THEN set(r, section_path, built)
           ELSE add_relative_section(rel, section_path, built),
           r, rel)

\* Parser::process_section, the plain-object branch, given what parse_object returned.
store_object(o, section_path, is_absolute, r, rel, order) ==
    IF ~IsOk(o.res)
    THEN [res |-> o.res, root |-> r, rel |-> rel, built |-> None]
    ELSE stored(VObject(o.map), is_absolute,
                IF is_absolute THEN merge_entries(r, o.map, order, 1, section_path)
                ELSE add_relative_section(rel, section_path, VObject(o.map)),
                r, rel)

\* Parser::process_section, given the section's shape.
process_shaped(shape, toks, section_path, is_absolute, r, rel, infer, order) ==
    IF shape = "empty"
    THEN [res |-> Ok, root |-> r, rel |-> rel, built |-> None]
    ELSE IF shape = "scalar_array"
    THEN store_array(VArray(scalar_values(toks, infer)), section_path, is_absolute, r, rel)
    ELSE IF shape = "object_array"
    THEN store_array(VArray(parse_object_array(toks, infer)), section_path, is_absolute, r, rel)
    ELSE store_object(parse_object(toks, infer), section_path, is_absolute, r, rel, order)

\* Parser::process_section
process_section(toks, section_path, is_absolute, r, rel, infer, order) ==
    process_shaped(section_shape(toks), toks, section_path, is_absolute, r, rel, infer, order)

(***************************************************************************)
(* State.  One run of Parser::parse reads a text line by line (Lexer::     *)
(* tokenize), then walks the tokens section by section                     *)
(* (Parser::parse_tokens) into a Document; the Document's methods can also *)
(* be called directly.                                                     *)
(***************************************************************************)
VARIABLES
    pc,                     \* where the run is: "tokenize", "parse_tokens", "returned",
                            \* "panicked", or "document" for direct method calls
    infer_types,            \* Parser.infer_types
    text,                   \* the lines read so far
    in_multiline,           \* Lexer.in_multiline
    multiline_quote_count,  \* Lexer.multiline_quote_count
    tokens,                 \* tokenize's tokens
    opened,                 \* history: per line, the quote count of the block open
                            \* when the line was read (0 when none was)
    i,                      \* parse_tokens' i
    current_section_path,   \* parse_tokens' current_section_path
    current_is_absolute,    \* parse_tokens' current_is_absolute
    section_start,          \* parse_tokens' section_start
    root,                   \* Document.root
    relative_sections,      \* Document.relative_sections
    result,                 \* None while parse runs, then Some(Ok), Some(Err(e)) or Some(Panic)
    sections,               \* history: the sections process_section was called on
    last,                   \* history: the last direct method call
    calls                   \* the number of direct method calls made

lexer_vars == <<text, in_multiline, multiline_quote_count, tokens, opened>>
parser_vars == <<i, current_section_path, current_is_absolute, section_start, sections>>
document_vars == <<root, relative_sections>>
method_vars == <<last, calls>>
vars == <<pc, infer_types, lexer_vars, parser_vars, document_vars, result, method_vars>>

NoCall ==
    [op |-> "none", path |-> <<>>, value |-> VNull, res |-> Ok, root_before |-> EmptyMap]

\* Lexer::new, Document::new and the locals of parse_tokens at its start.
Fresh ==
    /\ text = <<>> /\ in_multiline = FALSE /\ multiline_quote_count = 0
    /\ tokens = <<>> /\ opened = <<>>
    /\ i = 0 /\ current_section_path = <<>> /\ current_is_absolute = TRUE
    /\ section_start = 0 /\ sections = <<>>
    /\ root = EmptyMap /\ relative_sections = EmptyMap
    /\ result = None /\ last = NoCall /\ calls = 0

(***************************************************************************)
(* Lexer::tokenize                                                         *)
(***************************************************************************)

\* One iteration of tokenize's loop over text.lines().
TokenizeLine(line) ==
    /\ pc = "tokenize"
    /\ \E t \in {tokenize_line(line, Len(text) + 1, in_multiline, multiline_quote_count)} :
          /\ tokens' = Append(tokens, t.token)
          /\ in_multiline' = t.in_multiline
          /\ multiline_quote_count' = t.multiline_quote_count
    /\ text' = Append(text, line)
    /\ opened' = Append(opened, IF in_multiline THEN multiline_quote_count ELSE 0)
    /\ UNCHANGED <<pc, infer_types, parser_vars, document_vars, result, method_vars>>

\* The text is exhausted: tokenize returns, parse makes the Document and calls
\* parse_tokens.
EndOfText ==
    /\ pc = "tokenize"
    /\ pc' = "parse_tokens"
    /\ UNCHANGED <<infer_types, lexer_vars, parser_vars, document_vars, result, method_vars>>

(***************************************************************************)
(* Parser::parse_tokens                                                    *)
(***************************************************************************)
IsHeader(token) == token.token_type \in {"AbsoluteHeader", "RelativeHeader"}

\* The index (0-based) of the first header at or after `from`, Len(toks) when none.
RECURSIVE NextHeader(_, _)
NextHeader(toks, from) ==
    IF from >= Len(toks) \/ IsHeader(toks[from + 1]) THEN from
    ELSE NextHeader(toks, from + 1)

SectionRecord(toks, p) ==
    [path |-> current_section_path, is_absolute |-> current_is_absolute,
     tokens |-> toks, built |-> p.built, res |-> p.res]

\* process_section has returned p on the tokens toks: both are recorded and the
\* Document is as it left it; when it failed, parse returns its failure and the
\* Document is dropped.
AfterSection(toks, p) ==
    /\ sections' = Append(sections, SectionRecord(toks, p))
    /\ IF IsOk(p.res)
       THEN root' = p.root /\ relative_sections' = p.rel
       ELSE /\ root' = EmptyMap /\ relative_sections' = EmptyMap
            /\ result' = Some(p.res)
            /\ pc' = IF IsPanic(p.res) THEN "panicked" ELSE "returned"

\* The section before the header at index h is closed (processed when it is
\* not empty) and the header's section is started.
StartSection(h) ==
    IF h > section_start
    THEN \E order \in section_orders(SubSeq(tokens, section_start + 1, h),
                                     current_is_absolute, infer_types) :
         \E p \in {process_section(SubSeq(tokens, section_start + 1, h),
                                   current_section_path, current_is_absolute,
                                   root, relative_sections, infer_types, order)} :
            /\ AfterSection(SubSeq(tokens, section_start + 1, h), p)
            /\ IF IsOk(p.res)
               THEN /\ current_section_path' = Unwrap(tokens[h + 1].path)
                    /\ current_is_absolute' = Unwrap(tokens[h + 1].is_absolute)
                    /\ section_start' = h + 1
                    /\ i' = h + 1
                    /\ UNCHANGED <<pc, result>>
               ELSE /\ i' = h
                    /\ UNCHANGED <<current_section_path, current_is_absolute, section_start>>
    ELSE /\ current_section_path' = Unwrap(tokens[h + 1].path)
         /\ current_is_absolute' = Unwrap(tokens[h + 1].is_absolute)
         /\ section_start' = h + 1
         /\ i' = h + 1
         /\ UNCHANGED <<pc, result, sections, document_vars>>

\* parse_tokens' loop up to and including the next header token.
ParseHeader ==
    /\ pc = "parse_tokens"
    /\ NextHeader(tokens, i) < Len(tokens)
    /\ StartSection(NextHeader(tokens, i))
    /\ UNCHANGED <<infer_types, lexer_vars, method_vars>>

\* parse_tokens' loop to the end of the tokens and the final section; parse
\* then returns.
ParseFinal ==
    /\ pc = "parse_tokens"
    /\ NextHeader(tokens, i) = Len(tokens)
    /\ i' = Len(tokens)
    /\ IF section_start < Len(tokens)
       THEN \E order \in section_orders(SubSeq(tokens, section_start + 1, Len(tokens)),
                                        current_is_absolute, infer_types) :
            \E p \in {process_section(SubSeq(tokens, section_start + 1, Len(tokens)),
                                      current_section_path, current_is_absolute,
                                      root, relative_sections, infer_types, order)} :
               /\ AfterSection(SubSeq(tokens, section_start + 1, Len(tokens)), p)
               /\ IF IsOk(p.res)
                  THEN pc' = "returned" /\ result' = Some(Ok)
                  ELSE TRUE
       ELSE /\ pc' = "returned" /\ result' = Some(Ok)
            /\ UNCHANGED <<sections, document_vars>>
    /\ UNCHANGED <<infer_types, lexer_vars, current_section_path, current_is_absolute,
                   section_start, method_vars>>

(***************************************************************************)
(* Parser::parse on texts of a few lines                                   *)
(***************************************************************************)
MaxLines == 4

Lines ==
    {Chars("# p:"), Chars("p:"), Chars("p.q:"), Chars(".:"), Chars("x = 1"),
     Chars("y.z = 2"), Chars("y.w = 3"), Chars("= 5"), Chars("foo"), Chars("")}

Init == pc = "tokenize" /\ infer_types = TRUE /\ Fresh

ReadLine == \E line \in Lines : Len(text) < MaxLines /\ TokenizeLine(line)

Next == ReadLine \/ EndOfText \/ ParseHeader \/ ParseFinal

Spec == Init /\ [][Next]_vars

(***************************************************************************)
(* Properties of Parser::parse                                             *)
(***************************************************************************)
Returned == pc = "returned" /\ result = Some(Ok)

\* Every section processed was a plain-object section (an Object was built
\* from it), all under headers of one path and of one kind, and there were at
\* least two.
SamePathObjectSections(is_absolute) ==
    /\ Len(sections) >= 2
    /\ \A k \in 1..Len(sections) :
          /\ sections[k].is_absolute = is_absolute
          /\ sections[k].path = sections[1].path
          /\ IsSome(sections[k].built)
          /\ is_object(Unwrap(sections[k].built))

\* The objects of the first k sections, each laid over the ones before it: a
\* later section's value wins, objects on both sides are merged.
RECURSIVE SectionsMerged(_)
SectionsMerged(k) ==
    IF k = 0 THEN EmptyMap
    ELSE deep_merge_objects(SectionsMerged(k - 1), Val(Unwrap(sections[k].built)))

\* C1: after a parse of a text whose sections are plain-object sections under
\* two or more absolute headers of one path, get at that path yields an Object
\* holding every key the sections set, a key set twice with the later value and
\* objects on both sides deep-merged.
C1_SamePathAbsoluteSectionsMerge ==
    (Returned /\ SamePathObjectSections(TRUE))
        => get(root, sections[1].path) = Some(VObject(SectionsMerged(Len(sections))))

\* The sections processed were all under relative headers of one path, at
\* least two of them, each with a value built from it.
SamePathRelativeSections ==
    /\ Len(sections) >= 2
    /\ \A k \in 1..Len(sections) :
          /\ ~sections[k].is_absolute
          /\ sections[k].path = sections[1].path
          /\ IsSome(sections[k].built)

\* C2: after a parse of a text whose sections are under two or more relative
\* headers of one path, relative_sections holds at that path exactly the value
\* of the last of them.
C2_SamePathRelativeSectionsOverwrite ==
    (Returned /\ SamePathRelativeSections)
        => get(relative_sections, sections[1].path) = sections[Len(sections)].built

IsBare(token) == token.token_type = "ScalarValue"
IsBlank(token) == token.token_type = "BlankLine"
IsKeyValue(token) == token.token_type = "KeyValue"

\* Only bare lines (and blank ones), at least one bare.
OnlyBareLines(toks) ==
    /\ \E k \in 1..Len(toks) : IsBare(toks[k])
    /\ \A k \in 1..Len(toks) : IsBare(toks[k]) \/ IsBlank(toks[k])

HasKeyValueLine(toks) == \E k \in 1..Len(toks) : IsKeyValue(toks[k])

\* A blank line with a key/value line before it and one after it.
InteriorBlankLine(toks) ==
    \E a, b, c \in 1..Len(toks) :
        a < b /\ b < c /\ IsKeyValue(toks[a]) /\ IsBlank(toks[b]) /\ IsKeyValue(toks[c])

IsScalarArray(v) ==
    Tag(v) = "Array" /\ \A k \in 1..Len(Val(v)) : ~is_object(Val(v)[k])

IsObjectArray(v) ==
    Tag(v) = "Array" /\ Val(v) # <<>> /\ \A k \in 1..Len(Val(v)) : is_object(Val(v)[k])

ShapeIsPositional(s) ==
    /\ OnlyBareLines(s.tokens) => (IsSome(s.built) /\ IsScalarArray(Unwrap(s.built)))
    /\ (HasKeyValueLine(s.tokens) /\ InteriorBlankLine(s.tokens))
          => (IsSome(s.built) /\ IsObjectArray(Unwrap(s.built)))
    /\ (HasKeyValueLine(s.tokens) /\ ~InteriorBlankLine(s.tokens))
          => (IsSome(s.built) /\ is_object(Unwrap(s.built)))

\* C3: of every section of bare, key/value and blank lines, the value built is
\* a scalar array when it has only bare lines, an array of objects when it has
\* key/value lines and a blank line between two of them, and an object when it
\* has key/value lines otherwise.
C3_ShapeIsPositional ==
    \A k \in 1..Len(sections) : ShapeIsPositional(sections[k])

\* A section with a blank line between two key/value lines was built into an
\* array of two objects.
C3_Witness ==
    \E k \in 1..Len(sections) :
        /\ InteriorBlankLine(sections[k].tokens)
        /\ IsSome(sections[k].built)
        /\ IsObjectArray(Unwrap(sections[k].built))
        /\ Len(Val(Unwrap(sections[k].built))) = 2

\* C8: parse ends by returning: a Document, or a typed error.
C8_ParseReturnsDocumentOrError ==
    /\ pc # "panicked"
    /\ IsSome(result) => (IsOk(Unwrap(result)) \/ IsErr(Unwrap(result)))

(***************************************************************************)
(* The Document's methods called directly on a Document::new()             *)
(***************************************************************************)
MaxCalls == 2

DocPaths ==
    {Chars(""), Chars("."), Chars("a"), Chars("a.b"), Chars("a.b..c"), Chars("\"a.b\"")}

DocValues ==
    {VInteger(Chars("1")), VString(Chars("s")), VArray(<<VInteger(Chars("1"))>>),
     VObject(EmptyMap), VObject(MapInsert(EmptyMap, Chars("b"), VInteger(Chars("2")))),
     VObject(MapInsert(EmptyMap, Chars("b"),
                       VObject(MapInsert(EmptyMap, Chars("c"), VArray(<<VNull>>)))))}

\* The roots of the other Documents handed to merge: those one set makes of a
\* Document::new().
OtherRoots == {set(EmptyMap, path, value).map : path \in DocPaths, value \in DocValues}

Called(op, path, value, res) ==
    /\ last' = [op |-> op, path |-> path, value |-> value, res |-> res, root_before |-> root]
    /\ calls' = calls + 1

\* document.set(path, value)
DocSet(path, value) ==
    /\ pc = "document" /\ calls < MaxCalls
    /\ \E w \in {set(root, path, value)} :
          root' = w.map /\ Called("set", path, value, w.res)
    /\ UNCHANGED <<pc, infer_types, lexer_vars, parser_vars, relative_sections, result>>

\* document.merge_at_path(path, value)
DocMergeAtPath(path, value) ==
    /\ pc = "document" /\ calls < MaxCalls
    /\ \E w \in {merge_at_path(root, path, value)} :
          root' = w.map /\ Called("merge_at_path", path, value, w.res)
    /\ UNCHANGED <<pc, infer_types, lexer_vars, parser_vars, relative_sections, result>>

\* document.merge(&other), other's root being other_root
DocMerge(other_root) ==
    /\ pc = "document" /\ calls < MaxCalls
    /\ root' = merge(root, other_root)
    /\ Called("merge", <<>>, VObject(other_root), Ok)
    /\ UNCHANGED <<pc, infer_types, lexer_vars, parser_vars, relative_sections, result>>

\* A variant of DocAddRelativeSection that walks self.root instead of
\* self.relative_sections.
DocAddRelativeSectionIntoRoot(path, value) ==
    /\ pc = "document" /\ calls < MaxCalls
    /\ \E w \in {add_relative_section(root, path, value)} :
          /\ root' = w.map
          /\ Called("add_relative_section", path, value, w.res)
          /\ pc' = IF IsPanic(w.res) THEN "panicked" ELSE pc
    /\ UNCHANGED <<infer_types, lexer_vars, parser_vars, relative_sections, result>>

\* document.add_relative_section(path, value); its panic ends the run.
DocAddRelativeSection(path, value) ==
    /\ pc = "document" /\ calls < MaxCalls
    /\ \E w \in {add_relative_section(relative_sections, path, value)} :
          /\ relative_sections' = w.map
          /\ Called("add_relative_section", path, value, w.res)
          /\ pc' = IF IsPanic(w.res) THEN "panicked" ELSE pc
    /\ UNCHANGED <<infer_types, lexer_vars, parser_vars, root, result>>

InitDoc == pc = "document" /\ infer_types = TRUE /\ Fresh

CallSet == \E path \in DocPaths, value \in DocValues : DocSet(path, value)
CallMergeAtPath == \E path \in DocPaths, value \in DocValues : DocMergeAtPath(path, value)
CallMerge == \E other_root \in OtherRoots : DocMerge(other_root)
CallAddRelativeSection ==
    \E path \in DocPaths, value \in DocValues : DocAddRelativeSection(path, value)

NextDoc == CallSet \/ CallMergeAtPath \/ CallMerge \/ CallAddRelativeSection

SpecDoc == InitDoc /\ [][NextDoc]_vars

\* C5: when set(P, V) returns Ok, get(P) right after it returns V, for every
\* path P, the empty path and paths with empty or quoted segments included.
C5_SetThenGetRoundTrip ==
    (last.op = "set" /\ IsOk(last.res)) => get(root, last.path) = Some(last.value)

\* C6: deep_merge(A, {}) = A and deep_merge(deep_merge(A, B), B) = deep_merge(A, B)
\* for every root A and every other root B, and a second Document.merge with the
\* same other Document changes nothing.
C6_DeepMergeIdempotent ==
    /\ deep_merge_objects(root, EmptyMap) = root
    /\ \A B \in OtherRoots :
          deep_merge_objects(deep_merge_objects(root, B), B) = deep_merge_objects(root, B)
    /\ last.op = "merge" => merge(root, Val(last.value)) = root

\* A merge has laid an array and a nested object over a root that held other
\* values at those keys.
C6_Witness ==
    /\ last.op = "merge"
    /\ root # last.root_before
    /\ last.root_before # EmptyMap
    /\ \E key \in DOMAIN Val(last.value) :
          /\ HasKey(last.root_before, key)
          /\ is_object(last.root_before[key]) /\ is_object(Val(last.value)[key])
          /\ Val(last.root_before[key]) # EmptyMap /\ Val(Val(last.value)[key]) # EmptyMap

\* Some intermediate (non-final) part of the path holds a non-Object in the root r.
IntermediateNotObject(r, parts) ==
    \E k \in 1..(Len(parts) - 1) :
        /\ IsSome(get_walk(VObject(r), SubSeq(parts, 1, k), 1))
        /\ ~is_object(Unwrap(get_walk(VObject(r), SubSeq(parts, 1, k), 1)))

\* C7: a set whose path passes through a non-Object fails with a
\* ValidationError and leaves the root as it was before the call.
C7_FailedSetLeavesRoot ==
    (last.op = "set" /\ IntermediateNotObject(last.root_before, parse_path(last.path)))
        => /\ IsErr(last.res) /\ last.res[2][1] = "ValidationError"
           /\ root = last.root_before

\* A set has failed on a non-Object below an existing Object: the walk had
\* entered one level before it failed.
C7_Witness ==
    /\ last.op = "set"
    /\ IsErr(last.res)
    /\ Len(parse_path(last.path)) >= 3
    /\ last.res[2][3] = parse_path(last.path)[2]
    /\ root = last.root_before

\* What merge_at_path is said to do on the root r: set the deep merge when the
\* value at the path and the new value are both Objects, else just set.
MergeOrSet(r, path, value) ==
    IF IsSome(get(r, path)) /\ is_object(Unwrap(get(r, path))) /\ is_object(value)
    THEN set(r, path, VObject(deep_merge_objects(Val(Unwrap(get(r, path))), Val(value))))
    ELSE set(r, path, value)

\* C9: merge_at_path(path, value) leaves the Document set(path, deep_merge(
\* existing, value)) leaves when get(path) yields an Object and value is an
\* Object, and in every other case leaves the Document and returns the result
\* set(path, value) does.
C9_MergeAtPathIsMergeOrSet ==
    last.op = "merge_at_path"
        => /\ root = MergeOrSet(last.root_before, last.path, last.value).map
           /\ last.res = MergeOrSet(last.root_before, last.path, last.value).res

\* merge_at_path has merged an Object into a non-empty Object at a nested path.
C9_Witness ==
    /\ last.op = "merge_at_path"
    /\ Len(parse_path(last.path)) >= 1
    /\ is_object(last.value) /\ Val(last.value) # EmptyMap
    /\ IsSome(get(last.root_before, last.path))
    /\ is_object(Unwrap(get(last.root_before, last.path)))
    /\ Val(Unwrap(get(last.root_before, last.path))) # EmptyMap
    /\ root # set(last.root_before, last.path, last.value).map

\* A step that is one method call on the Document.
IsCall == calls' = calls + 1

\* A step of parse_tokens in which process_section succeeded on a section.
IsSectionStep ==
    /\ pc = "parse_tokens"
    /\ Len(sections') = Len(sections) + 1
    /\ IsOk(sections'[Len(sections')].res)

\* C12: set, merge and merge_at_path leave relative_sections as it was and
\* add_relative_section leaves root as it was; in a parse, an absolute section
\* leaves relative_sections and a relative section leaves root as it was.
C12_TreesDoNotLeak ==
    [][/\ (IsCall /\ last'.op \in {"set", "merge", "merge_at_path"})
             => relative_sections' = relative_sections
       /\ (IsCall /\ last'.op = "add_relative_section") => root' = root
       /\ (IsSectionStep /\ current_is_absolute) => relative_sections' = relative_sections
       /\ (IsSectionStep /\ ~current_is_absolute) => root' = root]_vars

\* add_relative_section has stored a value while root held other content, and
\* get does not return at its path what relative_sections holds there.
C12_Witness ==
    /\ last.op = "add_relative_section" /\ IsOk(last.res)
    /\ root # EmptyMap
    /\ Len(parse_path(last.path)) >= 1
    /\ get(relative_sections, last.path) = Some(last.value)
    /\ get(root, last.path) # Some(last.value)

(***************************************************************************)
(* Lexer::tokenize on lines that open, continue and close quoted blocks    *)
(***************************************************************************)
MaxQuoteLines == 3

QuoteLines ==
    {Chars("x = \""), Chars("x = \"\""), Chars("\""), Chars("\"\""), Chars("\"\"\""),
     Chars("abc"), Chars("ab\""), Chars("x = \"a\""), Chars("x = \"a\" (c)"),
     Chars(""), Chars("# p:"), Chars("y = 1")}

InitLex == pc = "tokenize" /\ infer_types = TRUE /\ Fresh

ReadQuoteLine == \E line \in QuoteLines : Len(text) < MaxQuoteLines /\ TokenizeLine(line)

NextLex == ReadQuoteLine

SpecLex == InitLex /\ [][NextLex]_vars

\* The length of the run of quote characters a line ends in.
RECURSIVE TrailingQuotes(_)
TrailingQuotes(line) ==
    IF line # <<>> /\ line[Len(line)] = QUOTE
    THEN 1 + TrailingQuotes(SubSeq(line, 1, Len(line) - 1))
    ELSE 0

\* C4: a line read while a block opened by N quotes is open closes it
\* (MultilineEnd) exactly when the line ends in a run of exactly N quotes; with
\* a longer or a shorter run it is MultilineContent.
C4_ExactLengthClose ==
    \A k \in 1..Len(text) :
        opened[k] > 0 =>
            IF TrailingQuotes(text[k]) = opened[k]
            THEN tokens[k].token_type = "MultilineEnd"
            ELSE tokens[k].token_type = "MultilineContent"

\* C16: a key/value line read outside a block whose value is opened and closed
\* by one quote and followed by the annotation (c) gives a KeyValue token with
\* the content between the quotes as value and c as constraint, and does not
\* leave the lexer in a block.
C16_QuotedValueWithConstraint ==
    \A k \in 1..Len(text) :
        (opened[k] = 0 /\ text[k] = Chars("x = \"a\" (c)")) =>
            /\ tokens[k].token_type = "KeyValue"
            /\ tokens[k].value = Some(Chars("a"))
            /\ tokens[k].constraint = Some(Chars("c"))
            /\ k = Len(text) => ~in_multiline

\* Before line k a MultilineStart has been emitted with no MultilineEnd since.
BlockOpenBefore(k) ==
    \E j \in 1..(k - 1) :
        /\ tokens[j].token_type = "MultilineStart"
        /\ \A n \in (j + 1)..(k - 1) : tokens[n].token_type # "MultilineEnd"

\* C18: a line read after a MultilineStart with no MultilineEnd since is
\* emitted as MultilineContent holding the whole line, or as the MultilineEnd;
\* any other line is emitted as neither; the lexer is in a block exactly when a
\* MultilineStart awaits its MultilineEnd.
C18_BlocksWellBracketed ==
    /\ \A k \in 1..Len(text) :
          /\ tokens[k].raw_line = text[k]
          /\ IF BlockOpenBefore(k)
             THEN \/ tokens[k].token_type = "MultilineEnd"
                  \/ /\ tokens[k].token_type = "MultilineContent"
                     /\ tokens[k].value = Some(text[k])
             ELSE tokens[k].token_type \notin {"MultilineContent", "MultilineEnd"}
    /\ in_multiline = BlockOpenBefore(Len(text) + 1)

\* A header-looking line and a blank line were read inside a block and both
\* were emitted as MultilineContent.
C18_Witness ==
    /\ Len(text) = 3
    /\ tokens[1].token_type = "MultilineStart"
    /\ text[2] = Chars("# p:") /\ tokens[2].token_type = "MultilineContent"
    /\ text[3] = <<>> /\ tokens[3].token_type = "MultilineContent"
    /\ in_multiline

(***************************************************************************)
(* Parser::parse, with infer_types on or off, on texts of scalars and      *)
(* quoted blocks that read as booleans and numbers                         *)
(***************************************************************************)
MaxScalarLines == 3

ScalarLines ==
    {Chars("# p:"), Chars("a = 42"), Chars("b = 1.5"), Chars("c = TRUE"), Chars("d = abc"),
     Chars("e = 1e3"), Chars("f = -7"), Chars("h = 9223372036854775808"),
     Chars("m = \""), Chars("m = \"42"), Chars("42"), Chars("true"), Chars("\""),
     Chars("x = \"42\""), Chars("x = \"true\"")}

InitInfer == pc = "tokenize" /\ infer_types \in BOOLEAN /\ Fresh

ReadScalarLine ==
    \E line \in ScalarLines : Len(text) < MaxScalarLines /\ TokenizeLine(line)

NextInfer == ReadScalarLine \/ EndOfText \/ ParseHeader \/ ParseFinal

SpecInfer == InitInfer /\ [][NextInfer]_vars

\* The type the precedence Boolean > Integer > Float > String gives a raw scalar.
TypeByPrecedence(raw) ==
    IF to_lowercase(raw) \in {Chars("true"), Chars("false")} THEN "Boolean"
    ELSE IF IsSome(parse_i64(raw)) THEN "Integer"
    ELSE IF IsSome(parse_f64(raw)) THEN "Float"
    ELSE "String"

\* No later key/value or block of the section has the key of its token k.
LastWithKey(toks, k) ==
    \A j \in (k + 1)..Len(toks) : IsKeyValueKind(toks[j]) => toks[j].key # toks[k].key

\* In the object built from a section, each key/value line's value has the type
\* of the precedence (String with inference off) and each block's value is a String.
ObjectTyped(s) ==
    \A k \in 1..Len(s.tokens) :
        (IsKeyValueKind(s.tokens[k]) /\ LastWithKey(s.tokens, k)) =>
            Tag(Val(Unwrap(s.built))[Unwrap(s.tokens[k].key)]) =
                IF s.tokens[k].token_type = "MultilineStart" \/ ~infer_types THEN "String"
                ELSE TypeByPrecedence(Unwrap(s.tokens[k].value))

\* In the array built from a section of bare lines, each element has the type
\* of the precedence (String with inference off).
ArrayTyped(s) ==
    /\ Len(Val(Unwrap(s.built))) = Len(s.tokens)
    /\ \A k \in 1..Len(s.tokens) :
          Tag(Val(Unwrap(s.built))[k]) =
              IF infer_types THEN TypeByPrecedence(Unwrap(s.tokens[k].value)) ELSE "String"

\* C10: every raw scalar of a section is stored with the type the precedence
\* Boolean > Integer > Float > String gives it (booleans matched in any case),
\* and the value of a multiline block is stored as a String, with infer_types
\* on or off.
C10_InferencePrecedence ==
    \A n \in 1..Len(sections) :
        IsSome(sections[n].built) =>
            IF is_object(Unwrap(sections[n].built)) THEN ObjectTyped(sections[n])
            ELSE ArrayTyped(sections[n])

\* With infer_types on, a section held an integer literal and a closed block
\* whose text reads as the same integer: the one was stored as an Integer, the
\* other as a String.
C10_Witness ==
    /\ infer_types
    /\ \E n \in 1..Len(sections) :
          /\ IsSome(sections[n].built) /\ is_object(Unwrap(sections[n].built))
          /\ \E k \in 1..Len(sections[n].tokens) :
                sections[n].tokens[k].token_type = "MultilineEnd"
          /\ HasKey(Val(Unwrap(sections[n].built)), Chars("a"))
          /\ Val(Unwrap(sections[n].built))[Chars("a")] = VInteger(Chars("42"))
          /\ HasKey(Val(Unwrap(sections[n].built)), Chars("m"))
          /\ Val(Unwrap(sections[n].built))[Chars("m")] = VString(Chars("42"))

\* The value the object built from section s holds for the key of its token k.
StoredFor(s, k) == Val(Unwrap(s.built))[Unwrap(s.tokens[k].key)]

\* Token k of the section is a line read outside any block.
OutsideBlock(s, k) == s.tokens[k].token_type \notin {"MultilineContent", "MultilineEnd"}

\* Token k of the section opens a block that the next line closes, and the
\* block's text is `body`.
TwoLineBlock(s, k, body) ==
    /\ s.tokens[k].token_type = "MultilineStart"
    /\ s.tokens[k].value = Some(body)
    /\ k < Len(s.tokens)
    /\ s.tokens[k + 1].token_type = "MultilineEnd"
    /\ s.tokens[k + 1].raw_line = <<QUOTE>>

\* In the object built from a section, the quoted literals `x = "42"` and
\* `x = "true"` are KeyValue tokens with the quotes removed, stored as Integer
\* 42 and Boolean true with inference on and as Strings with it off; a block of
\* two lines with the text 42 is stored as the String 42, and every block as a
\* String.
QuotedLiteralsInferred(s) ==
    \A k \in 1..Len(s.tokens) :
        /\ (s.tokens[k].raw_line = Chars("x = \"42\"") /\ OutsideBlock(s, k))
           => /\ s.tokens[k].token_type = "KeyValue"
              /\ s.tokens[k].value = Some(Chars("42"))
              /\ LastWithKey(s.tokens, k)
                 => StoredFor(s, k) = IF infer_types THEN VInteger(Chars("42"))
                                      ELSE VString(Chars("42"))
        /\ (s.tokens[k].raw_line = Chars("x = \"true\"") /\ OutsideBlock(s, k))
           => /\ s.tokens[k].token_type = "KeyValue"
              /\ s.tokens[k].value = Some(Chars("true"))
              /\ LastWithKey(s.tokens, k)
                 => StoredFor(s, k) = IF infer_types THEN VBoolean(TRUE)
                                      ELSE VString(Chars("true"))
        /\ (TwoLineBlock(s, k, Chars("42")) /\ LastWithKey(s.tokens, k))
           => StoredFor(s, k) = VString(Chars("42"))
        /\ (s.tokens[k].token_type = "MultilineStart" /\ LastWithKey(s.tokens, k))
           => Tag(StoredFor(s, k)) = "String"

\* C21: a quoted literal that opens and closes on one line is a KeyValue token
\* with its quotes removed and is typed by inference like a bare scalar
\* (`x = "42"` is Integer 42 and `x = "true"` is Boolean true with infer_types
\* on), whereas the same text in a block of several lines is stored as a String.
C21_QuotedLiteralIsInferred ==
    \A n \in 1..Len(sections) :
        (IsSome(sections[n].built) /\ is_object(Unwrap(sections[n].built)))
        => QuotedLiteralsInferred(sections[n])

\* With infer_types on, parse returned a Document in which the one-line literal
\* "42" is the Integer 42 and the two-line block with the text 42 is the
\* String 42.
C21_Witness ==
    /\ infer_types /\ Returned
    /\ text = <<Chars("x = \"42\""), Chars("m = \"42"), <<QUOTE>>>>
    /\ get(root, Chars("x")) = Some(VInteger(Chars("42")))
    /\ get(root, Chars("m")) = Some(VString(Chars("42")))

(***************************************************************************)
(* Parser::parse on texts of quoted blocks                                 *)
(***************************************************************************)
MaxBlockLines == 5

BlockLines ==
    {Chars("m = \""), Chars("one"), Chars(""), Chars(" two "), Chars("ab\"\""),
     Chars("# p:"), Chars("\"")}

InitBlock == pc = "tokenize" /\ infer_types = TRUE /\ Fresh

ReadBlockLine == \E line \in BlockLines : Len(text) < MaxBlockLines /\ TokenizeLine(line)

NextBlock == ReadBlockLine \/ EndOfText \/ ParseHeader \/ ParseFinal

SpecBlock == InitBlock /\ [][NextBlock]_vars

\* The first line opens a block and has nothing after its run of quotes.
OpensBlock ==
    /\ text # <<>>
    /\ tokens[1].token_type = "MultilineStart"
    /\ tokens[1].value = Some(<<>>)

\* The text is one block: its first line opens it, its last line is the run of
\* as many quotes and nothing else, and no line between them ends in a run of
\* exactly as many.
IsOneBlock ==
    /\ OpensBlock
    /\ Len(text) >= 2
    /\ text[Len(text)] = [k \in 1..Unwrap(tokens[1].quote_count) |-> QUOTE]
    /\ \A k \in 2..(Len(text) - 1) :
          TrailingQuotes(text[k]) # Unwrap(tokens[1].quote_count)

\* C11: of a text that is one block with a bare opening and a bare closing
\* line, the String stored under the key is the lines between them, verbatim
\* and in order, joined by single newlines, blank lines kept as empty lines.
C11_BlockIsInteriorLines ==
    (Returned /\ IsOneBlock)
        => get(root, Unwrap(tokens[1].key))
               = Some(VString(join(SubSeq(text, 2, Len(text) - 1), NL)))

\* C15: when the text ends with the block its first line opened still open,
\* parse returns Ok and the key of the block does not hold the text
\* accumulated so far.
C15_OpenBlockNotDelivered ==
    (pc = "returned" /\ OpensBlock /\ in_multiline /\ Len(text) >= 2
        /\ \A k \in 1..Len(tokens) : tokens[k].token_type # "MultilineEnd")
        => /\ result = Some(Ok)
           /\ get(root, Unwrap(tokens[1].key))
                  # Some(VString(join(SubSeq(text, 2, Len(text)), NL)))


(***************************************************************************)
(* Parser::parse on texts of a few sections: the implicit root section,    *)
(* `#:` and `# p:` sections, keys that meet at one path, dotted keys,      *)
(* blank-line groups and a text block.                                     *)
(***************************************************************************)
MaxSectionLines == 4

SectionLines ==
    {Chars("#:"), Chars("# p:"), Chars("a = 1"), Chars("\"a\" = 2"), Chars("a.b = 3"),
     Chars("= 5"), Chars(""), Chars("foo"), Chars("m = \""), Chars("\"")}

InitSections == pc = "tokenize" /\ infer_types = TRUE /\ Fresh

ReadSectionLine == \E line \in SectionLines : Len(text) < MaxSectionLines /\ TokenizeLine(line)

NextSections == ReadSectionLine \/ EndOfText \/ ParseHeader \/ ParseFinal

SpecSections == InitSections /\ [][NextSections]_vars

\* An entry of a section: a token parse_object and parse_object_array store a
\* value for.
IsEntry(token) ==
    \/ token.token_type = "KeyValue" /\ IsSome(token.key) /\ IsSome(token.value)
    \/ token.token_type = "MultilineStart" /\ IsSome(token.key)

\* The section's tokens j < n are entries, the first with an undotted key and
\* the second with a dotted key whose first segment is that key, and no entry
\* between them has a key of that first segment.
DescendsAt(toks, j, n) ==
    /\ j < n /\ IsEntry(toks[j]) /\ IsEntry(toks[n])
    /\ toks[j].token_type = "KeyValue"
    /\ ~contains(Unwrap(toks[j].key), ".")
    /\ contains(Unwrap(toks[n].key), ".")
    /\ split(Unwrap(toks[n].key), ".")[1] = Unwrap(toks[j].key)
    /\ \A m \in (j + 1)..(n - 1) :
          IsEntry(toks[m]) => split(Unwrap(toks[m].key), ".")[1] # Unwrap(toks[j].key)

\* C14: when, in a plain-object section, a dotted key descends through a key
\* that already holds a scalar (and no earlier entry of the section does),
\* process_section fails with a ValidationError naming that key, parse returns
\* that error and no Document is left.
C14_DescentThroughScalarIsValidationError ==
    \A k \in 1..Len(sections) :
        \A j, n \in 1..Len(sections[k].tokens) :
            (section_shape(sections[k].tokens) = "plain_object"
             /\ DescendsAt(sections[k].tokens, j, n)
             /\ \A e \in 1..(n - 1), d \in 1..(n - 1) : ~DescendsAt(sections[k].tokens, d, e))
            => /\ IsErr(sections[k].res)
               /\ sections[k].res[2][1] = "ValidationError"
               /\ sections[k].res[2][3] = Unwrap(sections[k].tokens[j].key)
               /\ result = Some(sections[k].res)
               /\ root = EmptyMap /\ relative_sections = EmptyMap

\* The number of blank lines of a section before its token n: the index of the
\* blank-line-delimited group the token is in.
BlanksBefore(toks, n) == Cardinality({b \in 1..(n - 1) : toks[b].token_type = "BlankLine"})

\* The groups of a section that hold an entry, and the rank among them of the
\* group of token n.
EntryGroups(toks) == {BlanksBefore(toks, n) : n \in {e \in 1..Len(toks) : IsEntry(toks[e])}}

GroupRank(toks, n) == Cardinality({g \in EntryGroups(toks) : g <= BlanksBefore(toks, n)})

\* Entry n is the last entry of its group with its key.
LastInGroup(toks, n) ==
    \A e \in (n + 1)..Len(toks) :
        (IsEntry(toks[e]) /\ BlanksBefore(toks, e) = BlanksBefore(toks, n))
        => toks[e].key # toks[n].key

\* objects holds one non-empty object per group with an entry, in source
\* order, each with the keys of its group's entries and the inferred value of
\* the last key/value line of each key.
ObjectsPerGroup(toks, objects, infer) ==
    /\ Len(objects) = Cardinality(EntryGroups(toks))
    /\ \A r \in 1..Len(objects) :
          /\ is_object(objects[r])
          /\ Val(objects[r]) # EmptyMap
          /\ DOMAIN Val(objects[r]) =
                {Unwrap(toks[n].key) :
                    n \in {e \in 1..Len(toks) : IsEntry(toks[e]) /\ GroupRank(toks, e) = r}}
    /\ \A n \in 1..Len(toks) :
          (IsEntry(toks[n]) /\ toks[n].token_type = "KeyValue" /\ LastInGroup(toks, n))
          => Val(objects[GroupRank(toks, n)])[Unwrap(toks[n].key)]
                = infer_type(Unwrap(toks[n].value), infer)

\* C17: the array built from an object-array section holds exactly one
\* non-empty object per blank-line-delimited group that has an entry, in source
\* order, whatever blank lines lead, repeat or trail, and the last group is
\* included whether or not a blank line follows it.
C17_OneObjectPerGroup ==
    \A k \in 1..Len(sections) :
        section_shape(sections[k].tokens) = "object_array"
        => /\ IsSome(sections[k].built)
           /\ Tag(Unwrap(sections[k].built)) = "Array"
           /\ ObjectsPerGroup(sections[k].tokens, Val(Unwrap(sections[k].built)), infer_types)

\* A section of two groups separated by two blank lines, the last group
\* followed by no blank line, has been built into an array of two objects.
C17_Witness ==
    /\ Returned
    /\ Len(sections) = 1
    /\ Len(sections[1].tokens) = 4
    /\ IsEntry(sections[1].tokens[1]) /\ IsEntry(sections[1].tokens[4])
    /\ sections[1].tokens[2].token_type = "BlankLine"
    /\ sections[1].tokens[3].token_type = "BlankLine"
    /\ sections[1].built # None
    /\ Len(Val(Unwrap(sections[1].built))) = 2

\* Lexer::tokenize, the loop over text.lines() from line k with the tokens so
\* far and the lexer's fields.
RECURSIVE tokenize_loop(_, _, _, _, _)
tokenize_pushed(lines, k, toks, t) ==
    tokenize_loop(lines, k + 1, Append(toks, t.token), t.in_multiline, t.multiline_quote_count)

tokenize_loop(lines, k, toks, lex_in_multiline, lex_quote_count) ==
    IF k > Len(lines) THEN toks
    ELSE tokenize_pushed(lines, k, toks,
                         tokenize_line(lines[k], k, lex_in_multiline, lex_quote_count))

\* Lexer::tokenize on a fresh Lexer.
tokenize(lines) == tokenize_loop(lines, 1, <<>>, FALSE, 0)

HeaderFree(toks) == \A k \in 1..Len(toks) : ~IsHeader(toks[k])
NotHeader(token) == ~IsHeader(token)

\* The text read with a leading `#:` line taken off, when it has one.
BodyLines == IF text # <<>> /\ text[1] = Chars("#:") THEN Tail(text) ELSE text

\* What parse has returned and the Document it has left.
Outcome == [res |-> result, root |-> root, rel |-> relative_sections]

\* What parse returns when process_section, called once, returns p.
outcome_of(p) ==
    IF IsOk(p.res) THEN [res |-> Some(Ok), root |-> p.root, rel |-> p.rel]
    ELSE [res |-> Some(p.res), root |-> EmptyMap, rel |-> EmptyMap]

\* The tokens of the first k sections processed, in order.
RECURSIVE SectionTokens(_)
SectionTokens(k) == IF k = 0 THEN <<>> ELSE SectionTokens(k - 1) \o sections[k].tokens

\* C19: for lines L without a header, parsing L and parsing `#:` followed by L
\* yield one and the same outcome, that of L processed as one absolute section
\* of path ""; and when parse returns a Document, the tokens that are not
\* headers are, in order, exactly the tokens of the sections processed.
C19_ImplicitSectionIsRootSection ==
    /\ (pc \in {"returned", "panicked"} /\ HeaderFree(tokenize(BodyLines)))
       => \A order \in section_orders(tokenize(BodyLines), TRUE, infer_types) :
             Outcome = outcome_of(process_section(tokenize(BodyLines), <<>>, TRUE,
                                                  EmptyMap, EmptyMap, infer_types, order))
    /\ Returned => SectionTokens(Len(sections)) = SelectSeq(tokens, NotHeader)

\* The tokens of the section parse_tokens processes next.
NextSection == SubSeq(tokens, section_start + 1, NextHeader(tokens, i))

\* Two returns of process_section are the same outcome: the same Document, or
\* an error both.
SameOutcome(p, q) == IF IsOk(p.res) THEN outcome_of(q) = outcome_of(p) ELSE ~IsOk(q.res)

\* C20: whatever the order in which process_section applies the top-level keys
\* of an absolute plain-object section, the outcome is the same.
C20_KeyOrderIrrelevant ==
    pc = "parse_tokens"
    => \A o1, o2 \in section_orders(NextSection, current_is_absolute, infer_types) :
          SameOutcome(process_section(NextSection, current_section_path, current_is_absolute,
                                      root, relative_sections, infer_types, o1),
                      process_section(NextSection, current_section_path, current_is_absolute,
                                      root, relative_sections, infer_types, o2))
=============================================================================
